---- MODULE Spec2Model ----
(***************************************************************************)
(* A model of the in-memory key/value server of src/src/main.rs: the RESP  *)
(* codec (Resp::new and its parse_* helpers), the per-connection worker    *)
(* (handle_connection, handle_data and the command handlers) and the       *)
(* shared store behind its mutex.                                          *)
(*                                                                         *)
(* Byte strings are sequences of one-character strings; the few bytes that *)
(* are not ASCII (in the snapshot payload) are written "\\xHH".            *)
(***************************************************************************)
EXTENDS Integers, Sequences, FiniteSets, TLC

\* ------------------------------------------------------------------ bytes

CRLF == <<"\r", "\n">>

\* The NUL byte the read buffer is filled with (vec![0; 1024]).
NUL == "\\0"

Digits == <<"0", "1", "2", "3", "4", "5", "6", "7", "8", "9">>

UpperCase == <<"A", "B", "C", "D", "E", "F", "G", "H", "I", "J", "K", "L", "M",
               "N", "O", "P", "Q", "R", "S", "T", "U", "V", "W", "X", "Y", "Z">>

LowerCase == <<"a", "b", "c", "d", "e", "f", "g", "h", "i", "j", "k", "l", "m",
               "n", "o", "p", "q", "r", "s", "t", "u", "v", "w", "x", "y", "z">>

\* The bytes >= 0x80 of the model: none of them starts or continues a valid
\* UTF-8 sequence where it stands in the snapshot payload or in an input.
NonUtf8 == {"\\xFA", "\\xC0", "\\xC2", "\\xBC", "\\xB0", "\\xC4", "\\xFF",
            "\\xF0", "\\xFE", "\\xA2"}

\* The Unicode White_Space bytes str::trim_end removes (ASCII range).
WhiteSpace == {" ", "\t", "\n", "\r", "\f"}

IsDigit(c) == \E d \in 1..10 : Digits[d] = c

DigitVal(c) == (CHOOSE d \in 1..10 : Digits[d] = c) - 1

\* to_lowercase, were it to leave the text as it is.
to_lowercase_not(s) == s

\* str::to_lowercase on ASCII text.
to_lowercase(s) ==
    [i \in 1..Len(s) |->
        IF \E j \in 1..26 : UpperCase[j] = s[i]
        THEN LowerCase[CHOOSE j \in 1..26 : UpperCase[j] = s[i]]
        ELSE s[i]]

\* str::contains(needle): needle occurs as a contiguous substring of hay.
contains(hay, needle) ==
    \E i \in 1..(Len(hay) - Len(needle) + 1) :
        SubSeq(hay, i, i + Len(needle) - 1) = needle

\* str::split_once("\r\n"): Some((before, after)) of the first CRLF, or None.
split_once(input) ==
    LET hits == {i \in 1..(Len(input) - 1) : input[i] = "\r" /\ input[i + 1] = "\n"}
    IN  IF hits = {}
        THEN [some |-> FALSE]
        ELSE LET i == CHOOSE h \in hits : \A g \in hits : h <= g
             IN  [some |-> TRUE,
                  data |-> SubSeq(input, 1, i - 1),
                  residual |-> SubSeq(input, i + 2, Len(input))]

RECURSIVE DecimalValue(_)
DecimalValue(s) ==
    IF s = <<>> THEN 0
    ELSE 10 * DecimalValue(SubSeq(s, 1, Len(s) - 1)) + DigitVal(s[Len(s)])

\* str::parse::<usize>(): an optional leading "+", then one or more decimal
\* digits and nothing else.  (Every number of the model has fewer than ten
\* digits, so the overflow error of a 64-bit usize is never met.)
parse_usize(s) ==
    LET body == IF s # <<>> /\ s[1] = "+" THEN Tail(s) ELSE s
    IN  IF body # <<>> /\ \A i \in 1..Len(body) : IsDigit(body[i])
        THEN [ok |-> TRUE, val |-> DecimalValue(body)]
        ELSE [ok |-> FALSE]

\* format!("{}", n) for a non-negative integer.
RECURSIVE to_string(_)
to_string(n) ==
    IF n < 10 THEN <<Digits[n + 1]>>
    ELSE to_string(n \div 10) \o <<Digits[(n % 10) + 1]>>

\* ------------------------------------------------------------------ codec

\* enum Resp: the text of a string in val, the elements of an array in items.
SimpleString(s) == [type |-> "SimpleString", val |-> s, items |-> <<>>]

BulkString(s) == [type |-> "BulkString", val |-> s, items |-> <<>>]

Array(elements) == [type |-> "Array", val |-> <<>>, items |-> elements]

\* A panic (unwrap on None or Err, assert_eq!, todo!) unwinding out of a parser.
Panic == [ok |-> FALSE]

Parsed(d, res) == [ok |-> TRUE, d |-> d, res |-> res]

\* Resp::get_string
get_string(r) ==
    IF r.type \in {"SimpleString", "BulkString"}
    THEN [some |-> TRUE, val |-> r.val]
    ELSE [some |-> FALSE]

\* Resp::parse_simple_string
parse_simple_string(input) ==
    LET sp == split_once(input)
    IN  IF ~sp.some THEN Panic ELSE Parsed(sp.data, sp.residual)

\* Resp::parse_bulk_string with the size check as the source states it.
bulk_size_matches(size, data) == size = Len(data)

parse_bulk_string(input) ==
    LET sp == split_once(input)
    IN  IF ~sp.some THEN Panic
        ELSE LET size == parse_usize(sp.data)
             IN  IF ~size.ok THEN Panic
                 ELSE LET sp2 == split_once(sp.residual)
                      IN  IF ~sp2.some THEN Panic
                          ELSE IF ~bulk_size_matches(size.val, sp2.data) THEN Panic
                          ELSE Parsed(sp2.data, sp2.residual)

RECURSIVE Resp_new(_)
RECURSIVE parse_array_loop(_, _, _)

\* The body of the `for _ in 0..size` loop of Resp::parse_array.
parse_array_loop(n, elements, residual) ==
    IF n = 0 THEN Parsed(elements, residual)
    ELSE LET item == Resp_new(residual)
         IN  IF ~item.ok THEN Panic
             ELSE parse_array_loop(n - 1, Append(elements, item.resp), item.residual)

\* Resp::parse_array
parse_array(input) ==
    LET sp == split_once(input)
    IN  IF ~sp.some THEN Panic
        ELSE LET size == parse_usize(sp.data)
             IN  IF ~size.ok THEN Panic
                 ELSE parse_array_loop(size.val, <<>>, sp.residual)

\* Resp::new: one frame from the start of input, and the residual.
Resp_new(input) ==
    IF input = <<>> THEN Panic          \* split_at(1) past the end
    ELSE LET message_type == input[1]
             data == Tail(input)
         IN  CASE message_type = "+" ->
                    LET p == parse_simple_string(data)
                    IN  IF ~p.ok THEN Panic
                        ELSE [ok |-> TRUE, resp |-> SimpleString(p.d), residual |-> p.res]
               [] message_type = "$" ->
                    LET p == parse_bulk_string(data)
                    IN  IF ~p.ok THEN Panic
                        ELSE [ok |-> TRUE, resp |-> BulkString(p.d), residual |-> p.res]
               [] message_type = "*" ->
                    LET p == parse_array(data)
                    IN  IF ~p.ok THEN Panic
                        ELSE [ok |-> TRUE, resp |-> Array(p.d), residual |-> p.res]
               [] OTHER -> Panic        \* todo!()

\* The reply framing of handle_echo and handle_get: "${len}\r\n{message}\r\n".
bulk_reply(message) ==
    <<"$">> \o to_string(Len(message)) \o CRLF \o message \o CRLF

\* The null bulk handle_get writes.
NullBulk == <<"$", "-", "1">> \o CRLF

\* ------------------------------------------------------- frames (grammar)

\* The frame grammar of the wire format: the three variants of Resp and the
\* reply-only null bulk.
NullFrame == [type |-> "Null", val |-> <<>>, items |-> <<>>]

RECURSIVE Encode(_)
RECURSIVE EncodeAll(_)
EncodeAll(elements) ==
    IF elements = <<>> THEN <<>>
    ELSE Encode(Head(elements)) \o EncodeAll(Tail(elements))

\* encode(frame): the serializer of the grammar.
Encode(f) ==
    CASE f.type = "SimpleString" -> <<"+">> \o f.val \o CRLF
      [] f.type = "BulkString" -> bulk_reply(f.val)
      [] f.type = "Null" -> NullBulk
      [] f.type = "Array" ->
            <<"*">> \o to_string(Len(f.items)) \o CRLF \o EncodeAll(f.items)

\* -------------------------------------------------------------- constants

\* const REPL_ID
REPL_ID ==
    <<"8", "3", "7", "1", "b", "4", "f", "b", "1", "1", "5", "5", "b", "7", "1", "f", "4",
      "a", "0", "4", "d", "3", "e", "1", "b", "c", "3", "e", "1", "8", "c", "4", "a", "9",
      "9", "0", "a", "e", "e", "b">>

\* BASE64_STANDARD.decode(RDB_64): the 88 bytes of the snapshot payload.
rdb ==
    <<"R", "E", "D", "I", "S", "0", "0", "1", "1", "\\xFA", "\t", "r", "e", "d", "i", "s",
      "-", "v", "e", "r", "\\x05", "7", ".", "2", ".", "0", "\\xFA", "\n", "r", "e", "d",
      "i", "s", "-", "b", "i", "t", "s", "\\xC0", "@", "\\xFA", "\\x05", "c", "t", "i",
      "m", "e", "\\xC2", "m", "\\x08", "\\xBC", "e", "\\xFA", "\\x08", "u", "s", "e", "d",
      "-", "m", "e", "m", "\\xC2", "\\xB0", "\\xC4", "\\x10", "\\0", "\\xFA", "\\x08", "a",
      "o", "f", "-", "b", "a", "s", "e", "\\xC0", "\\0", "\\xFF", "\\xF0", "n", ";",
      "\\xFE", "\\xC0", "\\xFF", "Z", "\\xA2">>

\* The capacity of the read buffer: vec![0; 1024].
BufSize == 1024

\* The length of the replication id Server::init draws: take(40).
ReplIdLen == 40

PONG == <<"+", "P", "O", "N", "G">> \o CRLF

OK == <<"+", "O", "K">> \o CRLF

\* --------------------------------------------------------------- roles

\* enum Role
Master(master_replid, master_repl_offset) ==
    [kind |-> "Master", master_replid |-> master_replid,
     master_repl_offset |-> master_repl_offset]

Slave == [kind |-> "Slave", master_replid |-> <<>>, master_repl_offset |-> 0]

\* ------------------------------------------------------------ the store

\* Option<T> is a set of at most one element.
None == {}

Some(x) == {x}

\* insert, were it to leave an existing binding as it is (entry().or_insert).
insert_if_absent(s, key, val, expiry_time) ==
    IF \E e \in s : e.key = key THEN s
    ELSE s \cup {[key |-> key, val |-> val, expiry |-> expiry_time]}

\* insert, were it to keep the deadline of the binding it replaces when the
\* new one has none.
insert_keep_deadline(s, key, val, expiry_time) ==
    {e \in s : e.key # key}
    \cup {[key |-> key, val |-> val,
           expiry |-> IF expiry_time = {}
                      THEN UNION {e.expiry : e \in {x \in s : x.key = key}}
                      ELSE expiry_time]}

\* HashMap::insert as handle_set calls it: the binding of key is replaced.
insert(s, key, val, expiry_time) ==
    {e \in s : e.key # key} \cup {[key |-> key, val |-> val, expiry |-> expiry_time]}

\* get, were the comparison of keys inverted.
get_other(s, key) == {e \in s : e.key # key}

\* HashMap::get
get(s, key) == {e \in s : e.key = key}

\* handle_set: expiry.map(|delta| Instant::now() + Duration::from_millis(delta)).
expiry_time_of(expiry, instant_now) == {instant_now + delta : delta \in expiry}

\* is_expired, were the comparison turned round.
is_expired_reversed(expiry, instant_now) == \E deadline \in expiry : instant_now < deadline

\* handle_get: expiry.is_some() && Instant::now() > expiry.unwrap().
is_expired(expiry, instant_now) == \E deadline \in expiry : instant_now > deadline

\* ------------------------------------------------------- command handlers

\* What a handler does up to its first access to shared state:
\*   panic   the thread unwinds;
\*   reply   it writes bytes (possibly none) and returns;
\*   set/get it goes on to lock the store;
\*   psync   it goes on to the three writes of handle_psync.
Panicked == [kind |-> "panic"]

Reply(bytes) == [kind |-> "reply", bytes |-> bytes]

\* it.next().unwrap().get_string().unwrap()
next_string(it) ==
    IF it = <<>> THEN [ok |-> FALSE]
    ELSE LET g == get_string(Head(it))
         IN  IF ~g.some THEN [ok |-> FALSE]
             ELSE [ok |-> TRUE, val |-> g.val, rest |-> Tail(it)]

\* handle_ping
handle_ping == Reply(PONG)

\* handle_echo
handle_echo(it) ==
    LET message == next_string(it)
    IN  IF ~message.ok THEN Panicked ELSE Reply(bulk_reply(message.val))

\* count, were the two newlines of the body left out of the sum.
info_count_no_newlines == 11 + 54 + 20

\* handle_info: let count = 11 + 1 + 54 + 1 + 20
info_count == 11 + 1 + 54 + 1 + 20

handle_info(it, r) ==
    LET info_type == next_string(it)
    IN  IF ~info_type.ok THEN Panicked
        ELSE IF info_type.val # <<"r", "e", "p", "l", "i", "c", "a", "t", "i", "o", "n">>
        THEN Reply(<<>>)
        ELSE IF r.kind = "Master"
        THEN Reply(<<"$">> \o to_string(info_count) \o CRLF
                   \o <<"r", "o", "l", "e", ":", "m", "a", "s", "t", "e", "r", "\n">>
                   \o <<"m", "a", "s", "t", "e", "r", "_", "r", "e", "p", "l", "i", "d", ":">>
                   \o r.master_replid \o <<"\n">>
                   \o <<"m", "a", "s", "t", "e", "r", "_", "r", "e", "p", "l", "_",
                        "o", "f", "f", "s", "e", "t", ":">>
                   \o to_string(r.master_repl_offset) \o CRLF)
        ELSE Reply(<<"$", "1", "0">> \o CRLF
                   \o <<"r", "o", "l", "e", ":", "s", "l", "a", "v", "e">> \o CRLF)

\* handle_set up to store.lock(): the key and the value.
handle_set_args(it) ==
    LET key == next_string(it)
    IN  IF ~key.ok THEN Panicked
        ELSE LET val == next_string(key.rest)
             IN  IF ~val.ok THEN Panicked
                 ELSE [kind |-> "set", key |-> key.val, val |-> val.val, it |-> val.rest]

\* handle_set under the lock: the `expiry` match.  A panic here unwinds with
\* the guard alive.
handle_set_expiry(it) ==
    IF it = <<>> THEN [ok |-> TRUE, expiry |-> None]
    ELSE LET exp == get_string(Head(it))
         IN  IF ~exp.some THEN [ok |-> FALSE]
             ELSE IF ~contains(to_lowercase(exp.val), <<"p", "x">>)
             THEN [ok |-> TRUE, expiry |-> None]
             ELSE LET millis == next_string(Tail(it))
                  IN  IF ~millis.ok THEN [ok |-> FALSE]
                      ELSE LET n == parse_usize(millis.val)
                           IN  [ok |-> TRUE,
                                expiry |-> IF n.ok THEN Some(n.val) ELSE None]

\* handle_get up to store.lock(): the key.
handle_get_args(it) ==
    LET key == next_string(it)
    IN  IF ~key.ok THEN Panicked
        ELSE [kind |-> "get", key |-> key.val, val |-> <<>>, it |-> <<>>]

\* handle_get under the lock: the reply for what s.get(&key) found.
handle_get_reply(found, instant_now) ==
    IF found = None THEN NullBulk
    ELSE LET e == CHOOSE x \in found : TRUE
         IN  IF is_expired(e.expiry, instant_now) THEN NullBulk
             ELSE bulk_reply(e.val)

\* handle_replconf
handle_replconf == Reply(OK)

\* handle_psync: the header line.
psync_op ==
    <<"+", "F", "U", "L", "L", "R", "E", "S", "Y", "N", "C", " ">> \o REPL_ID
    \o <<" ", "0">> \o CRLF \o <<"$">> \o to_string(Len(rdb)) \o CRLF

\* The command an Array's first element selects: the chain of substring tests
\* of handle_data.
command_of(message) ==
    CASE contains(message, <<"p", "i", "n", "g">>) -> "ping"
      [] OTHER ->
    CASE contains(message, <<"e", "c", "h", "o">>) -> "echo"
      [] OTHER ->
    CASE contains(message, <<"i", "n", "f", "o">>) -> "info"
      [] OTHER ->
    CASE contains(message, <<"s", "e", "t">>) -> "set"
      [] OTHER ->
    CASE contains(message, <<"g", "e", "t">>) -> "get"
      [] OTHER ->
    CASE contains(message, <<"r", "e", "p", "l", "c", "o", "n", "f">>) -> "replconf"
      [] OTHER ->
    CASE contains(message, <<"p", "s", "y", "n", "c">>) -> "psync"
      [] OTHER -> "none"

RECURSIVE trim_end(_)
\* str::trim_end
trim_end(s) ==
    IF s # <<>> /\ s[Len(s)] \in WhiteSpace
    THEN trim_end(SubSeq(s, 1, Len(s) - 1)) ELSE s

RECURSIVE trim_end_matches_nul(_)
\* str::trim_end_matches('\0')
trim_end_matches_nul(s) ==
    IF s # <<>> /\ s[Len(s)] = NUL
    THEN trim_end_matches_nul(SubSeq(s, 1, Len(s) - 1)) ELSE s

\* The text handle_data parses, for a buffer whose first Len(read) bytes are
\* `read` and whose other bytes, up to BufSize, are NUL: a NUL is no white
\* space, so trim_end stops at the padding unless the read filled the buffer.
incoming_message(read) ==
    trim_end_matches_nul(IF Len(read) < BufSize THEN read ELSE trim_end(read))

\* String::from_utf8(buf.to_owned()) succeeds.
is_utf8(read) == \A i \in 1..Len(read) : read[i] \notin NonUtf8

\* handle_data, up to the handler's first access to shared state.
handle_data(read, r) ==
    IF ~is_utf8(read) THEN Panicked
    ELSE LET parsed == Resp_new(incoming_message(read))
         IN  IF ~parsed.ok THEN Panicked
             ELSE LET resp == parsed.resp
                  IN  IF resp.type \in {"SimpleString", "BulkString"}
                      THEN IF contains(to_lowercase(resp.val), <<"p", "i", "n", "g">>)
                           THEN handle_ping ELSE Reply(<<>>)
                      ELSE LET first == next_string(resp.items)
                           IN  IF ~first.ok THEN Panicked
                               ELSE LET command == command_of(to_lowercase(first.val))
                                        arr_iter == first.rest
                                    IN  CASE command = "ping" -> handle_ping
                                          [] command = "echo" -> handle_echo(arr_iter)
                                          [] command = "info" -> handle_info(arr_iter, r)
                                          [] command = "set" -> handle_set_args(arr_iter)
                                          [] command = "get" -> handle_get_args(arr_iter)
                                          [] command = "replconf" -> handle_replconf
                                          [] command = "psync" -> [kind |-> "psync"]
                                          [] OTHER -> Reply(<<>>)

\* ------------------------------------------------------------------ state

\* The connections Server::start has accepted, one worker thread each.
Workers == {"w1", "w2"}

VARIABLES
    store,      \* the HashMap behind the mutex: a set of [key, val, expiry]
    lock,       \* the worker holding the MutexGuard, or "free"
    poisoned,   \* the mutex is poisoned: a thread panicked holding the guard
    now,        \* Instant::now(), in milliseconds
    role,       \* the Role of the server
    pc,         \* pc[w]: where worker w stands
    buf,        \* buf[w]: the bytes the last read put into the buffer
    local,      \* local[w]: key, val, it and op of the handler w is running
    out,        \* out[w]: the bytes written to w's stream so far
    inflight,   \* inflight[w]: the segments sent to w that it has not read yet
    sent,       \* the number of frames the clients have sent
    lastSet,    \* history: per key, the last s.insert: [key, val, px, at, over]
    frame,      \* codec: the frame being encoded
    extra,      \* codec: the bytes that follow it on the wire
    wire,       \* codec: encode(frame) ++ extra
    decoded,    \* codec: what Resp::new made of wire
    phase,      \* codec: "idle", or how far the round trip has come
    main,       \* where the main thread stands: Server::init, start, or gone
    port,       \* config.port
    read_buf,   \* init_handshake: the bytes of read_buf before its zero padding
    hs,         \* init_handshake: step, and history: requests sent, reads, last reply
    peer        \* peer[w]: the client end of w's connection, "open" or "closed"

serverVars ==
    <<store, lock, poisoned, now, role, pc, buf, local, out, inflight, sent, lastSet>>

codecVars == <<frame, extra, wire, decoded, phase>>

bootVars == <<main, port, read_buf, hs, peer>>

vars ==
    <<store, lock, poisoned, now, role, pc, buf, local, out, inflight, sent, lastSet,
      frame, extra, wire, decoded, phase, main, port, read_buf, hs, peer>>

\* ----------------------------------------------------------------- bounds

\* The clients send at most MaxSends frames in all.
MaxSends == 3

\* The clock stops at MaxTime milliseconds.
MaxTime == 3

\* A stream.write falls short of its buffer by at most MaxShortfall bytes.
MaxShortfall == 1

\* The client of the one-connection specification sends at most MaxPipeline
\* frames.
MaxPipeline == 2

\* Bulk strings of the codec check have at most MaxBulkLen bytes.
MaxBulkLen == 2

\* ----------------------------------------------------------------- inputs

KeyA == <<"a">>

KeyB == <<"b">>

Vals == {<<"v">>, <<"w">>}

SET == <<"S", "E", "T">>

GET == <<"G", "E", "T">>

PX == <<"P", "X">>

PING == <<"P", "I", "N", "G">>

ECHO == <<"E", "C", "H", "O">>

\* A request: an Array of BulkStrings.
Cmd(args) == Encode(Array([i \in 1..Len(args) |-> BulkString(args[i])]))

\* The well-formed SET and GET requests on the keys ks, the PX arguments
\* taken from ds (milliseconds).
StoreMenu(ks, ds) ==
    {Cmd(<<SET, k, v>>) : k \in ks, v \in Vals}
    \cup {Cmd(<<SET, k, <<"w">>, PX, to_string(d)>>) : k \in ks, d \in ds}
    \cup {Cmd(<<GET, k>>) : k \in ks}

\* ---------------------------------------------------------------- actions

EmptyLocal == [key |-> <<>>, val |-> <<>>, it |-> <<>>, op |-> <<>>, instant |-> 0]

\* A client that has read the reply to its last request off the stream
\* writes its next request, the frame f.
ClientRequest(w, f) ==
    /\ inflight' = [inflight EXCEPT ![w] = <<f>>]
    /\ out' = [out EXCEPT ![w] = <<>>]
    /\ sent' = sent + 1
    /\ UNCHANGED <<store, lock, poisoned, now, role, pc, buf, local, lastSet>>
    /\ UNCHANGED <<codecVars, bootVars>>

\* The worker of w is blocked in read with nothing to read, and the clients
\* have requests left.
AwaitsRequest(w) ==
    /\ pc[w] = "read"
    /\ inflight[w] = <<>>
    /\ sent < MaxSends

\* A client writes the frame f while earlier requests of its are unanswered;
\* the frame reaches the server in a segment of its own.
SendWhole(w, f) ==
    /\ inflight' = [inflight EXCEPT ![w] = Append(@, f)]
    /\ sent' = sent + 1
    /\ UNCHANGED <<store, lock, poisoned, now, role, pc, buf, local, out, lastSet>>
    /\ UNCHANGED <<codecVars, bootVars>>

\* The frame reaches the server in one segment with the bytes before it.
SendCoalesced(w, f) ==
    /\ inflight[w] # <<>>
    /\ inflight' = [inflight EXCEPT ![w][Len(inflight[w])] = @ \o f]
    /\ sent' = sent + 1
    /\ UNCHANGED <<store, lock, poisoned, now, role, pc, buf, local, out, lastSet>>
    /\ UNCHANGED <<codecVars, bootVars>>

\* Where the network may cut a frame in two: after its first byte, in its
\* middle, before its last byte.
Cuts(f) == {c \in {1, Len(f) \div 2, Len(f) - 1} : c >= 1 /\ c < Len(f)}

\* The frame reaches the server in two segments, cut after c bytes.
SendSplit(w, f, c) ==
    /\ inflight' = [inflight EXCEPT ![w] =
                       @ \o <<SubSeq(f, 1, c), SubSeq(f, c + 1, Len(f))>>]
    /\ sent' = sent + 1
    /\ UNCHANGED <<store, lock, poisoned, now, role, pc, buf, local, out, lastSet>>
    /\ UNCHANGED <<codecVars, bootVars>>

\* handle_connection: stream.read(&mut buf) returns n > 0: the bytes of the
\* next segment, as many as the buffer takes.
Read(w) ==
    /\ pc[w] = "read"
    /\ inflight[w] # <<>>
    /\ LET segment == Head(inflight[w])
           n == IF Len(segment) <= BufSize THEN Len(segment) ELSE BufSize
       IN  /\ buf' = [buf EXCEPT ![w] = SubSeq(segment, 1, n)]
           /\ inflight' = [inflight EXCEPT ![w] =
                              IF n = Len(segment) THEN Tail(@)
                              ELSE <<SubSeq(segment, n + 1, Len(segment))>> \o Tail(@)]
    /\ pc' = [pc EXCEPT ![w] = "data"]
    /\ UNCHANGED <<store, lock, poisoned, now, role, local, out, sent, lastSet>>
    /\ UNCHANGED <<codecVars, bootVars>>

\* The thread of w panics: its stack unwinds, the stream is dropped.
Unwind(w) ==
    /\ pc' = [pc EXCEPT ![w] = "panicked"]
    /\ buf' = [buf EXCEPT ![w] = <<>>]
    /\ local' = [local EXCEPT ![w] = EmptyLocal]
    /\ inflight' = [inflight EXCEPT ![w] = <<>>]

\* The handler of w returns to the loop of handle_connection, which zeroes buf.
Return(w) ==
    /\ pc' = [pc EXCEPT ![w] = "read"]
    /\ buf' = [buf EXCEPT ![w] = <<>>]
    /\ local' = [local EXCEPT ![w] = EmptyLocal]
    /\ UNCHANGED inflight

\* handle_data: parse the buffer and dispatch.
HandleData(w) ==
    /\ pc[w] = "data"
    /\ LET o == handle_data(buf[w], role)
       IN  CASE o.kind = "panic" -> Unwind(w) /\ UNCHANGED out
             [] o.kind = "reply" ->
                    /\ out' = [out EXCEPT ![w] = @ \o o.bytes]
                    /\ Return(w)
             [] o.kind \in {"set", "get"} ->
                    /\ pc' = [pc EXCEPT ![w] = IF o.kind = "set" THEN "set_lock"
                                               ELSE "get_lock"]
                    /\ local' = [local EXCEPT ![w] =
                                    [key |-> o.key, val |-> o.val, it |-> o.it,
                                     op |-> <<>>, instant |-> 0]]
                    /\ UNCHANGED <<buf, inflight, out>>
             [] o.kind = "psync" ->
                    /\ pc' = [pc EXCEPT ![w] = "psync"]
                    /\ UNCHANGED <<buf, local, inflight, out>>
    /\ UNCHANGED <<store, lock, poisoned, now, role, sent, lastSet>>
    /\ UNCHANGED <<codecVars, bootVars>>

\* What one stream.write(bytes) can put on the stream: all of bytes, or a
\* shorter non-empty prefix.
write(bytes) ==
    {SubSeq(bytes, 1, n) : n \in {m \in 1..Len(bytes) : Len(bytes) - m <= MaxShortfall}}

\* The bytes handle_psync puts on the stream: write(op), write(&rdb) and
\* write_all(op).
psync_written(first, second) == first \o second \o psync_op

\* handle_psync
HandlePsync(w) ==
    /\ pc[w] = "psync"
    /\ \E first \in write(psync_op), second \in write(rdb) :
           out' = [out EXCEPT ![w] = @ \o psync_written(first, second)]
    /\ Return(w)
    /\ UNCHANGED <<store, lock, poisoned, now, role, sent, lastSet>>
    /\ UNCHANGED <<codecVars, bootVars>>

\* handle_set: store.lock(), the expiry match, s.insert.
SetLock(w) ==
    /\ pc[w] = "set_lock"
    /\ lock = "free"
    /\ IF poisoned
       THEN /\ Unwind(w)                \* expect("Store is poisoned!")
            /\ UNCHANGED <<store, lock, poisoned, lastSet>>
       ELSE LET e == handle_set_expiry(local[w].it)
            IN  IF ~e.ok
                THEN /\ Unwind(w)
                     /\ poisoned' = TRUE
                     /\ UNCHANGED <<store, lock, lastSet>>
                ELSE /\ store' = insert(store, local[w].key, local[w].val,
                                        expiry_time_of(e.expiry, now))
                     /\ lastSet' = {h \in lastSet : h.key # local[w].key}
                            \cup {[key |-> local[w].key, val |-> local[w].val,
                                   px |-> e.expiry,
                                   at |-> IF e.expiry = None THEN 0 ELSE now,
                                   over |-> UNION {x.expiry :
                                                x \in get(store, local[w].key)}]}
                     /\ lock' = w
                     /\ pc' = [pc EXCEPT ![w] = "set_write"]
                     /\ UNCHANGED <<poisoned, buf, local, inflight>>
    /\ UNCHANGED <<now, role, out, sent>>
    /\ UNCHANGED <<codecVars, bootVars>>

\* handle_set: write +OK; the guard drops as the handler returns.
SetWrite(w) ==
    /\ pc[w] = "set_write"
    /\ out' = [out EXCEPT ![w] = @ \o OK]
    /\ lock' = "free"
    /\ Return(w)
    /\ UNCHANGED <<store, poisoned, now, role, sent, lastSet>>
    /\ UNCHANGED <<codecVars, bootVars>>

\* handle_get: store.lock(), s.get(&key), the comparison with Instant::now().
GetLock(w) ==
    /\ pc[w] = "get_lock"
    /\ lock = "free"
    /\ IF poisoned
       THEN /\ Unwind(w)                \* expect("Store is poisoned!")
            /\ UNCHANGED lock
       ELSE /\ local' = [local EXCEPT ![w].op =
                            handle_get_reply(get(store, local[w].key), now),
                                         ![w].instant = now]
            /\ lock' = w
            /\ pc' = [pc EXCEPT ![w] = "get_write"]
            /\ UNCHANGED <<buf, inflight>>
    /\ UNCHANGED <<store, poisoned, now, role, out, sent, lastSet>>
    /\ UNCHANGED <<codecVars, bootVars>>

\* handle_get: write the reply; the guard drops as the handler returns.
GetWrite(w) ==
    /\ pc[w] = "get_write"
    /\ out' = [out EXCEPT ![w] = @ \o local[w].op]
    /\ lock' = "free"
    /\ Return(w)
    /\ UNCHANGED <<store, poisoned, now, role, sent, lastSet>>
    /\ UNCHANGED <<codecVars, bootVars>>

\* A millisecond passes.
Tick ==
    /\ now < MaxTime
    /\ now' = now + 1
    /\ UNCHANGED <<store, lock, poisoned, role, pc, buf, local, out, inflight, sent, lastSet>>
    /\ UNCHANGED <<codecVars, bootVars>>

\* -------------------------------------------------------------- bootstrap

\* Config::port: default_value_t = 6379.
DefaultPort == 6379

\* init_handshake, "Do PING": format!("*1\r\n$4\r\nping\r\n").
handshake_ping ==
    <<"*", "1">> \o CRLF \o <<"$", "4">> \o CRLF \o <<"p", "i", "n", "g">> \o CRLF

\* init_handshake, first "Do REPLCONF":
\* format!("*3\r\n$8\r\nREPLCONF\r\n$14\r\nlistening-port\r\n$4\r\n{}\r\n", self_port).
handshake_listening_port(self_port) ==
    <<"*", "3">> \o CRLF
    \o <<"$", "8">> \o CRLF \o <<"R", "E", "P", "L", "C", "O", "N", "F">> \o CRLF
    \o <<"$", "1", "4">> \o CRLF
    \o <<"l", "i", "s", "t", "e", "n", "i", "n", "g", "-", "p", "o", "r", "t">> \o CRLF
    \o <<"$", "4">> \o CRLF \o to_string(self_port) \o CRLF

\* init_handshake, second "Do REPLCONF".
handshake_capa ==
    <<"*", "3">> \o CRLF
    \o <<"$", "8">> \o CRLF \o <<"R", "E", "P", "L", "C", "O", "N", "F">> \o CRLF
    \o <<"$", "4">> \o CRLF \o <<"c", "a", "p", "a">> \o CRLF
    \o <<"$", "6">> \o CRLF \o <<"p", "s", "y", "n", "c", "2">> \o CRLF

\* init_handshake, "Do PSYNC".
handshake_psync ==
    <<"*", "3">> \o CRLF
    \o <<"$", "5">> \o CRLF \o <<"P", "S", "Y", "N", "C">> \o CRLF
    \o <<"$", "1">> \o CRLF \o <<"?">> \o CRLF
    \o <<"$", "2">> \o CRLF \o <<"-", "1">> \o CRLF

\* init_handshake with its steps in another order: PSYNC before the second
\* REPLCONF.
handshake_op_psync_early(step, self_port) ==
    CASE step = 1 -> handshake_ping
      [] step = 2 -> handshake_listening_port(self_port)
      [] step = 3 -> handshake_psync
      [] step = 4 -> handshake_capa

\* The request init_handshake writes at each of its four steps.
handshake_op(step, self_port) ==
    CASE step = 1 -> handshake_ping
      [] step = 2 -> handshake_listening_port(self_port)
      [] step = 3 -> handshake_capa
      [] step = 4 -> handshake_psync

\* The token init_handshake looks for in the reply of a step: the reply of
\* the last step is not looked at.
handshake_token(step) ==
    CASE step = 1 -> Some(<<"p", "o", "n", "g">>)
      [] step \in {2, 3} -> Some(<<"o", "k">>)
      [] OTHER -> None

\* stream.read(&mut read_buf) returning Ok(n): the n bytes read replace the
\* first n bytes of the buffer, the others stay as they were.
read_into(buffer, bytes) ==
    LET n == IF Len(bytes) <= BufSize THEN Len(bytes) ELSE BufSize
    IN  SubSeq(bytes, 1, n) \o SubSeq(buffer, n + 1, Len(buffer))

\* resp.to_lowercase().contains(token), on the whole buffer.
handshake_check(buffer, step) ==
    \A token \in handshake_token(step) : contains(to_lowercase(buffer), token)

\* init_handshake has not begun, or has returned and dropped its locals.
NoHandshake == [step |-> 0, sent |-> <<>>, reads |-> 0, reply |-> <<>>]

\* What init_handshake leaves behind when it returns on a follower that
\* listens on self_port.
HandshakeDone(self_port) ==
    [step |-> 4,
     sent |-> [k \in 1..4 |-> handshake_op(k, self_port)],
     reads |-> 4,
     reply |-> <<>>]

\* Server::init has returned and Server::start accepts connections; the
\* clients of the workers have their connections open.
Booted ==
    /\ main = "accepting"
    /\ port = DefaultPort
    /\ read_buf = <<>>
    /\ hs = IF role.kind = "Slave" THEN HandshakeDone(port) ELSE NoHandshake
    /\ peer = [w \in Workers |-> "open"]

\* --------------------------------------------------------- specifications

\* Server::init on a primary: a replication id of ReplIdLen characters.
ReplIds == {[i \in 1..ReplIdLen |-> "x"]}

ServerInit(roles) ==
    /\ store = {}
    /\ lock = "free"
    /\ poisoned = FALSE
    /\ now = 0
    /\ role \in roles
    /\ pc = [w \in Workers |-> "read"]
    /\ buf = [w \in Workers |-> <<>>]
    /\ local = [w \in Workers |-> EmptyLocal]
    /\ out = [w \in Workers |-> <<>>]
    /\ inflight = [w \in Workers |-> <<>>]
    /\ sent = 0
    /\ lastSet = {}
    /\ Booted

CodecIdle ==
    /\ frame = NullFrame
    /\ extra = <<>>
    /\ wire = <<>>
    /\ decoded = Panic
    /\ phase = "idle"

\* The workers of two connections on a primary; the clients send SETs and
\* GETs on the one key KeyA, each waiting for its reply before its next request.
Init ==
    /\ ServerInit({Master(id, 0) : id \in ReplIds})
    /\ CodecIdle

SpecFrames == StoreMenu({KeyA}, {1, 2})

Request == \E w \in Workers : AwaitsRequest(w) /\ \E f \in SpecFrames : ClientRequest(w, f)

ReadStep == \E w \in Workers : Read(w)

DataStep == \E w \in Workers : HandleData(w)

SetLockStep == \E w \in Workers : SetLock(w)

SetWriteStep == \E w \in Workers : SetWrite(w)

GetLockStep == \E w \in Workers : GetLock(w)

GetWriteStep == \E w \in Workers : GetWrite(w)

Next ==
    \/ Request
    \/ ReadStep
    \/ DataStep
    \/ SetLockStep
    \/ SetWriteStep
    \/ GetLockStep
    \/ GetWriteStep
    \/ Tick

Spec == Init /\ [][Next]_vars

\* The same workers, the client of each on a key of its own.
KeyOf(w) == IF w = "w1" THEN KeyA ELSE KeyB

DisjointFrames == [w \in Workers |-> StoreMenu({KeyOf(w)}, {1})]

DisjointRequest ==
    \E w \in Workers : AwaitsRequest(w) /\ \E f \in DisjointFrames[w] : ClientRequest(w, f)

DisjointNext ==
    \/ DisjointRequest
    \/ ReadStep
    \/ DataStep
    \/ SetLockStep
    \/ SetWriteStep
    \/ GetLockStep
    \/ GetWriteStep
    \/ Tick

DisjointSpec == Init /\ [][DisjointNext]_vars

\* One connection, on a primary or on a follower that has started: its
\* client sends requests of every kind without waiting for the replies, and
\* the network delivers each whole, with the bytes before it, or cut in two.
ConnWorker == "w1"

KEYS == <<"K", "E", "Y", "S">>

PINGX == <<"P", "I", "N", "G", "X">>

GETSET == <<"G", "E", "T", "S", "E", "T">>

RESET == <<"R", "E", "S", "E", "T">>

INFO == <<"I", "N", "F", "O">>

REPLCONF == <<"R", "E", "P", "L", "C", "O", "N", "F">>

PSYNC == <<"P", "S", "Y", "N", "C">>

\* The requests of the seven commands, well formed.
GoodFrames ==
    {Cmd(<<PING>>),
     <<"+">> \o PING \o CRLF,
     Cmd(<<ECHO, <<"h", "i">>>>),
     Cmd(<<INFO, <<"r", "e", "p", "l", "i", "c", "a", "t", "i", "o", "n">>>>),
     Cmd(<<SET, KeyA, <<"v">>>>),
     Cmd(<<GET, KeyA>>),
     Cmd(<<REPLCONF, <<"c", "a", "p", "a">>, <<"p", "s", "y", "n", "c", "2">>>>),
     Cmd(<<PSYNC, <<"?">>, <<"-", "1">>>>)}

\* Frames that do not decode: an unknown prefix byte, a declared length that
\* is not the length of the bulk, a line without its CRLF.
MalformedFrames ==
    {<<"-", "E", "R", "R">> \o CRLF,
     <<"$", "5">> \o CRLF \o <<"h", "i">> \o CRLF,
     <<"+">> \o PING}

\* Recognized commands with a missing or wrongly-typed argument.
BadArgFrames ==
    {Cmd(<<GET>>),
     Cmd(<<ECHO>>),
     Cmd(<<SET, KeyA, <<"v">>, PX>>),
     Encode(Array(<<BulkString(GET), Array(<<>>)>>))}

\* Array requests whose first token is none of the seven commands.
UnknownFrames ==
    {Cmd(<<KEYS>>),
     Cmd(<<PINGX>>),
     Cmd(<<GETSET, KeyA, <<"w">>>>),
     Cmd(<<RESET>>)}

ConnFrames == GoodFrames \cup MalformedFrames \cup BadArgFrames \cup UnknownFrames

ConnInit ==
    /\ ServerInit({Master(id, 0) : id \in ReplIds} \cup {Slave})
    /\ CodecIdle

\* The client may still send: its connection is open, and at most one
\* segment of its earlier requests is unread.
MaySend(w) ==
    /\ pc[w] # "panicked"
    /\ sent < MaxPipeline
    /\ Len(inflight[w]) <= 1

Whole == MaySend(ConnWorker) /\ \E f \in ConnFrames : SendWhole(ConnWorker, f)

Coalesced == MaySend(ConnWorker) /\ \E f \in ConnFrames : SendCoalesced(ConnWorker, f)

Split ==
    MaySend(ConnWorker) /\ \E f \in ConnFrames : \E c \in Cuts(f) : SendSplit(ConnWorker, f, c)

PsyncStep == \E w \in Workers : HandlePsync(w)

ConnNext ==
    \/ Whole
    \/ Coalesced
    \/ Split
    \/ ReadStep
    \/ DataStep
    \/ PsyncStep
    \/ SetLockStep
    \/ SetWriteStep
    \/ GetLockStep
    \/ GetWriteStep

ConnSpec == ConnInit /\ [][ConnNext]_vars

\* The codec alone: a frame of the grammar and the bytes that follow it on
\* the wire are encoded, and Resp::new decodes the result.
BulkBytes == {"a", "\r", "\n"}

RECURSIVE BytesUpTo(_)
\* The byte strings over BulkBytes of at most n bytes.
BytesUpTo(n) ==
    IF n = 0 THEN {<<>>}
    ELSE LET shorter == BytesUpTo(n - 1)
         IN  shorter \cup {Append(b, c) : b \in shorter, c \in BulkBytes}

LeafFrames ==
    {SimpleString(t) : t \in {<<>>, <<"O", "K">>, <<"P", "O", "N", "G">>}}
    \cup {BulkString(b) : b \in BytesUpTo(MaxBulkLen)}
    \cup {NullFrame}

\* The frames arrays are built of.
ItemFrames ==
    {SimpleString(<<"O", "K">>), BulkString(<<>>), BulkString(<<"a">>),
     BulkString(CRLF), NullFrame, Array(<<>>), Array(<<BulkString(<<"a">>)>>)}

ArrayFrames ==
    {Array(<<>>)}
    \cup {Array(<<x>>) : x \in ItemFrames}
    \cup {Array(<<x, y>>) : x \in ItemFrames, y \in ItemFrames}

Frames == LeafFrames \cup ArrayFrames

Extras == {<<>>, <<"x">>, CRLF, <<"+", "O", "K">> \o CRLF}

CodecInit ==
    /\ ServerInit({Master(id, 0) : id \in ReplIds})
    /\ frame \in Frames
    /\ extra \in Extras
    /\ wire = <<>>
    /\ decoded = Panic
    /\ phase = "frame"

EncodeStep ==
    /\ phase = "frame"
    /\ wire' = Encode(frame) \o extra
    /\ phase' = "wire"
    /\ UNCHANGED <<frame, extra, decoded>>
    /\ UNCHANGED <<serverVars, bootVars>>

DecodeStep ==
    /\ phase = "wire"
    /\ decoded' = Resp_new(wire)
    /\ phase' = "decoded"
    /\ UNCHANGED <<frame, extra, wire>>
    /\ UNCHANGED <<serverVars, bootVars>>

CodecNext ==
    \/ EncodeStep
    \/ DecodeStep

CodecSpec == CodecInit /\ [][CodecNext]_vars

\* ------------------------------------------------------- other workloads

\* Two connections whose clients send, besides well-formed SETs and GETs on
\* KeyA, SETs whose option lacks its argument or is an Array.
PoisonFrames ==
    {Cmd(<<SET, KeyA, <<"v">>, PX>>),
     Encode(Array(<<BulkString(SET), BulkString(KeyA), BulkString(<<"v">>), Array(<<>>)>>)),
     Cmd(<<SET, KeyA, <<"v">>>>),
     Cmd(<<GET, KeyA>>)}

PoisonRequest ==
    \E w \in Workers : AwaitsRequest(w) /\ \E f \in PoisonFrames : ClientRequest(w, f)

PoisonNext ==
    \/ PoisonRequest
    \/ ReadStep
    \/ DataStep
    \/ SetLockStep
    \/ SetWriteStep
    \/ GetLockStep
    \/ GetWriteStep

PoisonSpec == Init /\ [][PoisonNext]_vars

\* The dispatcher alone: one request, the name of one of the seven commands
\* in some mixture of upper and lower case with the arguments it takes, or a
\* SET with PX in some mixture of cases, is in flight to a worker.
RECURSIVE Casings(_)
\* word, each of its letters in upper or in lower case.
Casings(word) ==
    IF word = <<>> THEN {<<>>}
    ELSE {<<c>> \o rest : c \in {word[1], LowerCase[CHOOSE j \in 1..26 : UpperCase[j] = word[1]]},
                          rest \in Casings(Tail(word))}

CommandNames == {PING, ECHO, INFO, SET, GET, REPLCONF, PSYNC}

\* The arguments the requests of the dispatcher check give each command.
ArgsOf(name) ==
    CASE name = PING -> <<>>
      [] name = ECHO -> <<<<"h", "i">>>>
      [] name = INFO -> <<<<"r", "e", "p", "l", "i", "c", "a", "t", "i", "o", "n">>>>
      [] name = SET -> <<KeyA, <<"v">>>>
      [] name = GET -> <<KeyA>>
      [] name = REPLCONF -> <<<<"c", "a", "p", "a">>, <<"p", "s", "y", "n", "c", "2">>>>
      [] name = PSYNC -> <<<<"?">>, <<"-", "1">>>>

\* Each request with the command, or the option, its first token spells.
DispatchTable ==
    UNION {{[frame |-> Cmd(<<c>> \o ArgsOf(name)), name |-> name, option |-> <<>>] :
               c \in Casings(name)} : name \in CommandNames}
    \cup {[frame |-> Cmd(<<SET, KeyA, <<"v">>, c, <<"1">>>>), name |-> SET, option |-> c] :
              c \in Casings(PX)}

DispatchInit ==
    /\ store = {}
    /\ lock = "free"
    /\ poisoned = FALSE
    /\ now = 0
    /\ role \in {Master(id, 0) : id \in ReplIds} \cup {Slave}
    /\ pc = [w \in Workers |-> "read"]
    /\ buf = [w \in Workers |-> <<>>]
    /\ local = [w \in Workers |-> EmptyLocal]
    /\ out = [w \in Workers |-> <<>>]
    /\ \E e \in DispatchTable :
           inflight = [w \in Workers |-> IF w = ConnWorker THEN <<e.frame>> ELSE <<>>]
    /\ sent = 1
    /\ lastSet = {}
    /\ Booted
    /\ CodecIdle

DispatchNext ==
    \/ ReadStep
    \/ DataStep
    \/ PsyncStep
    \/ SetLockStep
    \/ SetWriteStep
    \/ GetLockStep
    \/ GetWriteStep

DispatchSpec == DispatchInit /\ [][DispatchNext]_vars

\* ---------------------------------------------------------------- startup

\* The whole process from Server::init on: the handshake of a follower
\* with its primary, the accept loop, and the workers of the connections it
\* accepts, whose clients send inline PINGs and may close their end.
Ports == {80, 6379, 65535}

\* What one read of the follower may return of the primary's reply: the
\* replies a primary gives, an error, one byte of a reply, or nothing at
\* all (the primary has closed the connection).
MasterReplies ==
    {PONG, OK, psync_op, <<"-", "E", "R", "R">> \o CRLF, <<"-">>, <<>>}

BootFrames == {<<"+">> \o PING \o CRLF}

BootInit ==
    /\ store = {}
    /\ lock = "free"
    /\ poisoned = FALSE
    /\ now = 0
    /\ role \in {Master(id, 0) : id \in ReplIds} \cup {Slave}
    /\ pc = [w \in Workers |-> "idle"]
    /\ buf = [w \in Workers |-> <<>>]
    /\ local = [w \in Workers |-> EmptyLocal]
    /\ out = [w \in Workers |-> <<>>]
    /\ inflight = [w \in Workers |-> <<>>]
    /\ sent = 0
    /\ lastSet = {}
    /\ main = "init"
    /\ port \in Ports
    /\ read_buf = <<>>
    /\ hs = NoHandshake
    /\ peer = [w \in Workers |-> "open"]
    /\ CodecIdle

\* Server::init calls init_handshake: a primary returns at once, a follower
\* connects to its primary.
HandshakeStart ==
    /\ main = "init"
    /\ IF role.kind = "Master"
       THEN main' = "accepting" /\ UNCHANGED hs
       ELSE main' = "write" /\ hs' = [hs EXCEPT !.step = 1]
    /\ UNCHANGED <<port, read_buf, peer>>
    /\ UNCHANGED <<serverVars, codecVars>>

\* init_handshake: stream.write_all(op) of the step it is at.
HandshakeWrite ==
    /\ main = "write"
    /\ hs' = [hs EXCEPT !.sent = Append(@, handshake_op(hs.step, port))]
    /\ main' = "read"
    /\ UNCHANGED <<port, read_buf, peer>>
    /\ UNCHANGED <<serverVars, codecVars>>

\* init_handshake: stream.read(&mut read_buf) returns `reply`, and the check
\* of the step: a panic, the next step, or the return to Server::init, which
\* goes on to Server::start.
HandshakeRead(reply) ==
    /\ main = "read"
    /\ LET filled == read_into(read_buf, reply)
           read == [hs EXCEPT !.reads = @ + 1, !.reply = reply]
       IN  IF ~handshake_check(filled, hs.step)
           THEN /\ main' = "panicked"
                /\ read_buf' = filled
                /\ hs' = read
           ELSE IF hs.step < 4
           THEN /\ main' = "write"
                /\ read_buf' = filled
                /\ hs' = [read EXCEPT !.step = @ + 1]
           ELSE /\ main' = "accepting"
                /\ read_buf' = <<>>
                /\ hs' = read
    /\ UNCHANGED <<port, peer>>
    /\ UNCHANGED <<serverVars, codecVars>>

HandshakeReadStep == \E reply \in MasterReplies : HandshakeRead(reply)

\* Server::start: listener.incoming() yields Ok(stream) and a thread is
\* spawned for it.
Accept(w) ==
    /\ main = "accepting"
    /\ pc[w] = "idle"
    /\ pc' = [pc EXCEPT ![w] = "read"]
    /\ UNCHANGED <<store, lock, poisoned, now, role, buf, local, out, inflight, sent, lastSet>>
    /\ UNCHANGED <<codecVars, bootVars>>

AcceptStep == \E w \in Workers : Accept(w)

\* What is left of a thread when the process exits.
exit_thread(at) == IF at = "idle" THEN "idle" ELSE "exited"

\* Server::start: listener.incoming() yields Err(e): break, start returns,
\* main returns and the process exits, with all its threads.
AcceptError ==
    /\ main = "accepting"
    /\ main' = "exited"
    /\ pc' = [w \in Workers |-> exit_thread(pc[w])]
    /\ UNCHANGED <<store, lock, poisoned, now, role, buf, local, out, inflight, sent, lastSet>>
    /\ UNCHANGED <<port, read_buf, hs, peer>>
    /\ UNCHANGED codecVars

BootRequest ==
    \E w \in Workers :
        /\ AwaitsRequest(w)
        /\ peer[w] = "open"
        /\ \E f \in BootFrames : ClientRequest(w, f)

\* The client of w closes its end of the connection.
Close(w) ==
    /\ pc[w] \notin {"idle", "exited"}
    /\ peer[w] = "open"
    /\ peer' = [peer EXCEPT ![w] = "closed"]
    /\ UNCHANGED <<main, port, read_buf, hs>>
    /\ UNCHANGED <<serverVars, codecVars>>

CloseStep == \E w \in Workers : Close(w)

\* handle_connection: stream.read(&mut buf) returns Ok(0): the worker
\* prints "waiting for more data..." and sleeps.
ReadZero(w) ==
    /\ pc[w] = "read"
    /\ inflight[w] = <<>>
    /\ peer[w] = "closed"
    /\ pc' = [pc EXCEPT ![w] = "sleep"]
    /\ UNCHANGED <<store, lock, poisoned, now, role, buf, local, out, inflight, sent, lastSet>>
    /\ UNCHANGED <<codecVars, bootVars>>

ReadZeroStep == \E w \in Workers : ReadZero(w)

\* handle_connection: the sleep is over: continue, to the next read.
Wake(w) ==
    /\ pc[w] = "sleep"
    /\ pc' = [pc EXCEPT ![w] = "read"]
    /\ UNCHANGED <<store, lock, poisoned, now, role, buf, local, out, inflight, sent, lastSet>>
    /\ UNCHANGED <<codecVars, bootVars>>

WakeStep == \E w \in Workers : Wake(w)

BootNext ==
    \/ HandshakeStart
    \/ HandshakeWrite
    \/ HandshakeReadStep
    \/ AcceptStep
    \/ AcceptError
    \/ BootRequest
    \/ ReadStep
    \/ DataStep
    \/ CloseStep
    \/ ReadZeroStep
    \/ WakeStep

BootSpec == BootInit /\ [][BootNext]_vars

\* The same, every worker thread being scheduled again and again: a read
\* that can return returns, a handler runs to its end, a sleep ends.
WorkerRuns(w) == Read(w) \/ HandleData(w) \/ ReadZero(w) \/ Wake(w)

FairBootSpec ==
    /\ BootInit
    /\ [][BootNext]_vars
    /\ \A w \in Workers : WF_vars(WorkerRuns(w))

\* ----------------------------------------------------------------- claims

\* The step in which worker w writes the reply of a GET to its stream.
GetReplies(w) == pc[w] = "get_write" /\ pc'[w] = "read"

\* The bytes that step puts on the stream of w are exactly `bytes`.
Writes(w, bytes) == out'[w] = out[w] \o bytes

\* The last SET on the key the handler of w works on, if there was one.
LastSetFor(w) == {h \in lastSet : h.key = local[w].key}

\* C1: a GET k that follows a SET k v without expiry option, with no other
\* SET on k in between, replies with the bulk string v (and so never with the
\* null bulk), on whichever connection and however much later it comes.
C1_GetAfterSet ==
    [][\A w \in Workers : GetReplies(w) =>
          \A h \in LastSetFor(w) : h.px = None => Writes(w, bulk_reply(h.val))]_vars

\* A GET on one connection is about to reply v, the value another
\* connection's SET without expiry has bound, some milliseconds after it.
C1_Witness ==
    \E w \in Workers : \E h \in LastSetFor(w) :
        /\ pc[w] = "get_write"
        /\ h.px = None
        /\ local[w].op = bulk_reply(h.val)
        /\ local[w].instant > 0
        /\ \E u \in Workers \ {w} : out[u] = OK

\* C2: after SET k v PX d with no later SET on k, a GET k executed less than
\* d ms after the SET replies with v, and one executed more than d ms after it
\* replies with the null bulk.
C2_Expiry ==
    [][\A w \in Workers : GetReplies(w) =>
          \A h \in LastSetFor(w) : \A d \in h.px :
              /\ local[w].instant - h.at < d => Writes(w, bulk_reply(h.val))
              /\ local[w].instant - h.at > d => Writes(w, NullBulk)]_vars

\* A GET executed more than d ms after the SET k v PX d is about to reply
\* with the null bulk.
C2_Witness ==
    \E w \in Workers : \E h \in LastSetFor(w) : \E d \in h.px :
        /\ pc[w] = "get_write"
        /\ local[w].instant - h.at > d
        /\ local[w].op = NullBulk

\* C3: a SET replaces the value and the deadline of the binding it finds:
\* the store holds exactly one entry for the key, with the value and the
\* deadline of the last SET alone; and a GET k after a SET k v2 without expiry
\* that replaced a binding with a deadline replies with v2, whatever the time.
C3_SetReplaces ==
    [][/\ \A h \in lastSet' :
              {e \in store' : e.key = h.key}
                  = {[key |-> h.key, val |-> h.val, expiry |-> {h.at + d : d \in h.px}]}
       /\ \A w \in Workers : GetReplies(w) =>
              \A h \in LastSetFor(w) :
                  (h.px = None /\ h.over # None) => Writes(w, bulk_reply(h.val))]_vars

\* A GET executed after the deadline of the replaced binding has passed is
\* about to reply with the value of the SET without expiry that replaced it.
C3_Witness ==
    \E w \in Workers : \E h \in LastSetFor(w) : \E deadline \in h.over :
        /\ pc[w] = "get_write"
        /\ h.px = None
        /\ local[w].instant > deadline
        /\ local[w].op = bulk_reply(h.val)
        /\ Cardinality({e \in store : e.key = h.key}) = 1

\* C4: with the workers running in parallel, each on a key of its own, every
\* GET replies with the null bulk or with the value of the last SET on that
\* key, which the same worker issued.
C4_DisjointKeys ==
    [][\A w \in Workers : GetReplies(w) =>
          /\ local[w].key = KeyOf(w)
          /\ \/ Writes(w, NullBulk)
             \/ \E h \in lastSet : h.key = KeyOf(w) /\ Writes(w, bulk_reply(h.val))]_vars

\* One worker, holding the lock, is about to reply to a GET with a value while
\* the other is in the middle of a SET on its own key, waiting for the lock.
C4_Witness ==
    \E w \in Workers : \E u \in Workers \ {w} :
        /\ pc[w] = "get_write"
        /\ local[w].op # NullBulk
        /\ pc[u] = "set_lock"
        /\ lock = w

\* The step in which worker w acts on the frame or frames in its buffer.
Handles(w) == buf[w] # <<>> /\ pc'[w] # pc[w]

\* Requests whose handler writes its reply and returns at once, and the reply
\* the server gives to each alone.
PipelineFrames ==
    {Cmd(<<PING>>), Cmd(<<ECHO, <<"h", "i">>>>),
     Cmd(<<REPLCONF, <<"c", "a", "p", "a">>, <<"p", "s", "y", "n", "c", "2">>>>)}

ReplyTo(f) == handle_data(f, role).bytes

\* C5: when one read delivers two complete command frames, both commands are
\* dispatched and both replies are written, in request order, with no further
\* input.  (Stated for the commands that reply at once.)
C5_Pipelined ==
    [][\A w \in Workers : \A f1 \in PipelineFrames, f2 \in PipelineFrames :
          (pc[w] = "data" /\ buf[w] = f1 \o f2)
              => Writes(w, ReplyTo(f1) \o ReplyTo(f2))]_vars

\* C6: when a well-formed command frame arrives cut in two, the worker that
\* has read the first part, the second being still in flight, keeps running.
C6_PartialRead ==
    [][\A w \in Workers : \A f \in GoodFrames : \A c \in Cuts(f) :
          (/\ pc[w] = "data"
           /\ buf[w] = SubSeq(f, 1, c)
           /\ inflight[w] # <<>>
           /\ Head(inflight[w]) = SubSeq(f, c + 1, Len(f)))
              => pc'[w] # "panicked"]_vars

\* C7: a frame that does not decode, or a recognized command with a missing
\* or wrongly-typed argument, leaves the worker of its connection running.
C7_ErrorsLocalized ==
    [][\A w \in Workers :
          buf[w] \in MalformedFrames \cup BadArgFrames => pc'[w] # "panicked"]_vars

\* C8: on an Array request whose first token is none of the seven commands
\* the server writes no reply, leaves the store as it is and keeps the
\* connection.
C8_UnknownCommand ==
    [][\A w \in Workers :
          (buf[w] \in UnknownFrames /\ Handles(w))
              => /\ out'[w] = out[w]
                 /\ store' = store
                 /\ pc'[w] # "panicked"]_vars

\* C9: decoding encode(f) ++ extra yields exactly (f, extra), for every frame
\* f of the grammar and every byte string extra.
C9_RoundTrip ==
    phase = "decoded" =>
        /\ decoded.ok
        /\ decoded.resp = frame
        /\ decoded.residual = extra

\* C10: the reply to one PSYNC is exactly the header line, the length line
\* and the snapshot bytes: every byte of them, and nothing after them.
C10_PsyncReply ==
    [][\A w \in Workers :
          (pc[w] = "psync" /\ pc'[w] = "read") => Writes(w, psync_op \o rdb)]_vars

\* The bytes the step of worker w puts on its stream.
Written(w) == SubSeq(out'[w], Len(out[w]) + 1, Len(out'[w]))

\* The start of a FULLRESYNC line that carries the replication id `id`.
FullResyncOf(id) ==
    <<"+", "F", "U", "L", "L", "R", "E", "S", "Y", "N", "C", " ">> \o id \o <<" ">>

\* C11: on a primary the replication id in the FULLRESYNC line of a PSYNC
\* reply is the primary's own replication id, the one chosen at startup that
\* INFO replication reports as master_replid.
C11_PsyncReplId ==
    [][\A w \in Workers :
          (pc[w] = "psync" /\ pc'[w] = "read" /\ role.kind = "Master")
              => LET line == FullResyncOf(role.master_replid)
                 IN  /\ Len(Written(w)) >= Len(line)
                     /\ SubSeq(Written(w), 1, Len(line)) = line]_vars

\* The INFO replication request.
InfoRequest == Cmd(<<INFO, <<"r", "e", "p", "l", "i", "c", "a", "t", "i", "o", "n">>>>)

\* The body of the INFO replication reply the role r calls for.
InfoBody(r) ==
    IF r.kind = "Master"
    THEN <<"r", "o", "l", "e", ":", "m", "a", "s", "t", "e", "r", "\n">>
         \o <<"m", "a", "s", "t", "e", "r", "_", "r", "e", "p", "l", "i", "d", ":">>
         \o r.master_replid \o <<"\n">>
         \o <<"m", "a", "s", "t", "e", "r", "_", "r", "e", "p", "l", "_",
              "o", "f", "f", "s", "e", "t", ":">>
         \o to_string(r.master_repl_offset)
    ELSE <<"r", "o", "l", "e", ":", "s", "l", "a", "v", "e">>

\* C12: the reply to INFO replication is a BulkString whose declared length
\* is the byte length of its body: on a primary the three lines role:master,
\* master_replid:<id>, master_repl_offset:<offset>, on a follower role:slave.
C12_InfoLength ==
    [][\A w \in Workers :
          (pc[w] = "data" /\ buf[w] = InfoRequest /\ pc'[w] # pc[w])
              => LET body == InfoBody(role)
                 IN  Writes(w, <<"$">> \o to_string(Len(body)) \o CRLF \o body \o CRLF)]_vars

\* A primary with a replication id of 40 characters has answered INFO
\* replication with its three lines.
C12_Witness ==
    \E w \in Workers :
        /\ role.kind = "Master"
        /\ Len(role.master_replid) = ReplIdLen
        /\ out[w] = bulk_reply(InfoBody(role))

\* The token a follower must find in the reply of a handshake step.
ExpectedToken(step) ==
    IF step = 1 THEN <<"p", "o", "n", "g">> ELSE <<"o", "k">>

\* C13: at each of the steps 1, 2 and 3 of the handshake, when the bytes the
\* primary sends in reply (none, if it closes the connection) do not contain
\* the expected token, the follower terminates: it sends no further request
\* and never accepts.
C13_HandshakeFatal ==
    [][(/\ main = "read"
        /\ main' # "read"
        /\ hs.step \in 1..3
        /\ ~contains(to_lowercase(hs'.reply), ExpectedToken(hs.step)))
           => main' = "panicked"]_vars

\* Which of the four handshake requests a request is, by its tokens.
RequestKind(request) ==
    LET text == to_lowercase(request)
    IN  IF contains(text, <<"l", "i", "s", "t", "e", "n", "i", "n", "g", "-", "p", "o", "r", "t">>)
        THEN "listening-port"
        ELSE IF contains(text, <<"c", "a", "p", "a">>) THEN "capa"
        ELSE IF contains(text, <<"p", "s", "y", "n", "c">>) THEN "psync"
        ELSE IF contains(text, <<"p", "i", "n", "g">>) THEN "ping"
        ELSE "other"

HandshakeOrder == <<"ping", "listening-port", "capa", "psync">>

\* C14: a follower sends PING, REPLCONF listening-port, REPLCONF capa and
\* PSYNC in this order, each only after the read that follows the request
\* before it has returned, and no worker is spawned before the read that
\* follows PSYNC has returned; a primary sends nothing and goes on to accept.
C14_StartupOrder ==
    /\ Len(hs.sent) <= Len(HandshakeOrder)
    /\ \A k \in 1..Len(hs.sent) : RequestKind(hs.sent[k]) = HandshakeOrder[k]
    /\ Len(hs.sent) \in {hs.reads, hs.reads + 1}
    /\ role.kind = "Master" => hs.sent = <<>> /\ hs.reads = 0
    /\ (role.kind = "Slave" /\ \E w \in Workers : pc[w] # "idle")
           => Len(hs.sent) = Len(HandshakeOrder) /\ hs.reads = Len(HandshakeOrder)

\* A follower has been through the four steps and serves a connection.
C14_Witness ==
    /\ role.kind = "Slave"
    /\ hs.reads = Len(HandshakeOrder)
    /\ \E w \in Workers : pc[w] = "data"

\* C15: after the peer has closed a connection and the worker has nothing
\* left to read, the worker eventually terminates.
C15_WorkerEnds ==
    \A w \in Workers :
        (peer[w] = "closed" /\ inflight[w] = <<>>)
            ~> (pc[w] \in {"returned", "panicked", "exited"})

\* C18: when the accept loop fails, the workers that are running go on as
\* they were.
C18_WorkersSurvive ==
    [][(main = "accepting" /\ main' # "accepting")
           => \A w \in Workers : pc'[w] = pc[w]]_vars

\* C19: whatever the listening port, the second request of the handshake is
\* the Array of the three BulkStrings REPLCONF, listening-port and the port,
\* each declared length being the length of the bulk that follows it.
C19_ListeningPort ==
    Len(hs.sent) >= 2 =>
        hs.sent[2] = <<"*", "3">> \o CRLF
                     \o bulk_reply(REPLCONF)
                     \o bulk_reply(<<"l", "i", "s", "t", "e", "n", "i", "n", "g", "-",
                                     "p", "o", "r", "t">>)
                     \o bulk_reply(to_string(port))

\* What the handler of the command `name` does first with the arguments of
\* ArgsOf: its reply, or its way to the store or to the snapshot.
HandlerStep(w, name) ==
    CASE name = PING -> Writes(w, PONG)
      [] name = ECHO -> Writes(w, bulk_reply(<<"h", "i">>))
      [] name = INFO -> Writes(w, bulk_reply(InfoBody(role)))
      [] name = SET -> pc'[w] = "set_lock" /\ local'[w].key = KeyA /\ out'[w] = out[w]
      [] name = GET -> pc'[w] = "get_lock" /\ local'[w].key = KeyA /\ out'[w] = out[w]
      [] name = REPLCONF -> Writes(w, OK)
      [] name = PSYNC -> pc'[w] = "psync" /\ out'[w] = out[w]

\* C16: each of the seven command names, in any mixture of upper and lower
\* case, selects the handler of that command and no other; and PX, in any
\* mixture of cases, gives the SET its deadline.
C16_CaseInsensitive ==
    [][\A w \in Workers : \A e \in DispatchTable :
          /\ (pc[w] = "data" /\ buf[w] = e.frame /\ pc'[w] # pc[w])
                 => HandlerStep(w, e.name)
          /\ (pc[w] = "set_lock" /\ buf[w] = e.frame /\ e.option # <<>> /\ pc'[w] # pc[w])
                 => \E h \in lastSet' : h.key = KeyA /\ h.px = Some(1)]_vars

\* A SET spelled sEt has reached handle_set, and a SET with the option pX
\* has stored its deadline.
C16_Witness ==
    \E w \in Workers :
        \/ pc[w] = "set_lock" /\ buf[w] = Cmd(<<<<"s", "E", "t">>, KeyA, <<"v">>>>)
        \/ /\ pc[w] = "set_write"
           /\ buf[w] = Cmd(<<SET, KeyA, <<"v">>, <<"p", "X">>, <<"1">>>>)
           /\ \E h \in lastSet : h.px = Some(1)

\* C17: a worker that is writing the reply of a SET or of a GET to its
\* connection does not hold the store mutex.
C17_NoLockAcrossIO ==
    \A w \in Workers : pc[w] \in {"set_write", "get_write"} => lock # w

\* C20: whatever has failed on other connections, a worker that has a
\* well-formed SET or GET to carry out completes it.
C20_StoreUsable ==
    [][\A w \in Workers :
          (pc[w] \in {"set_lock", "get_lock"} /\ buf[w] \in SpecFrames)
              => pc'[w] # "panicked"]_vars

====
